---- MODULE Spec2Model ----
(***************************************************************************)
(* Model of rssbot: the scheduler (main, runFeeds, saveConfig), the feed   *)
(* synchronizer (processFeed), the webhook message (NewMessage,            *)
(* Message.IsValid, Message.Send) and webhook.Hex2int.  Time is counted in *)
(* steps of 500 ms, the period of the scheduler's timer, so a second is    *)
(* TicksPerSec steps and time.Time.Unix truncates a time to whole seconds. *)
(***************************************************************************)
EXTENDS Integers, Sequences, FiniteSets, TLC

\* ------------------------------------------------------------------ bounds
MaxTime == 2          \* the clock runs from 0 to MaxTime
MaxItems == 2         \* items in one fetched document
MaxHooks == 2         \* destinations of a feed
MaxConc == 2          \* largest maxConcurrency of the configuration
MaxSecs == 2          \* latest second a feed-level timestamp falls in
MaxPosts == 2         \* HTTP posts counted in the message specification
MaxEmbeds == 2        \* embeds of a message in the message specification
TicksPerSec == 2      \* clock steps in one second
MaxHexLen == 3        \* length of the strings drawn for Hex2int

FeedNames == {"fa", "fb"}
\* the URL of the i-th webhook
HookURL(i) == <<"https://hook", i>>
\* a hook string that url.Parse refuses (missing protocol scheme)
BadHookURL(i) == <<":hook", i>>
EntryIds == {"e1", "e2", "e3", "e4", "e5"}

\* publish timestamp of each entry of the remote feeds: e1, e2 and e5 carry
\* the same timestamp, e3 and e4 are a second later
PublishedParsed(id) ==
    CASE id = "e1" -> TicksPerSec
      [] id = "e2" -> TicksPerSec
      [] id = "e5" -> TicksPerSec
      [] OTHER -> TicksPerSec + TicksPerSec

\* news.Description: whether goquery.NewDocumentFromReader parses it, and the
\* src of its first img element ("" when it has none, or none with a src)
Description(id) ==
    CASE id = "e1" -> [parses |-> TRUE, img |-> "img1"]
      [] id = "e4" -> [parses |-> TRUE, img |-> "img4"]
      [] id = "e5" -> [parses |-> FALSE, img |-> ""]
      [] OTHER -> [parses |-> TRUE, img |-> ""]

\* a pointer is the empty sequence when nil, else the sequence of the one
\* value it points to
Nil == <<>>

\* news.Image: the structured image of the entry, Nil when it has none
Image(id) ==
    CASE id = "e3" -> <<[URL |-> "pic3"]>>
      [] id = "e4" -> <<[URL |-> "pic4"]>>
      [] OTHER -> Nil

Stamps == 0..(MaxSecs * TicksPerSec)

\* time.Time.Unix(): whole seconds
Unix(t) == t \div TicksPerSec

SeqsUpTo(S, n) == UNION {[1..k -> S] : k \in 0..n}

\* the item lists a fetched document can carry: distinct entries, any order
ItemLists == {s \in SeqsUpTo(EntryIds, MaxItems) :
                 \A i, j \in 1..Len(s) : i # j => s[i] # s[j]}

\* gofeed.Feed.Less: Items[i].PublishedParsed.Before(Items[k].PublishedParsed)
Less(a, b) == PublishedParsed(a) < PublishedParsed(b)

Range(s) == {s[i] : i \in 1..Len(s)}

\* the documents a server with these entries can answer
Documents(ids) == {s \in ItemLists : Range(s) \subseteq ids}

\* a sort that leaves the items in any order
SortOutcomesAnyOrder(items) ==
    {s \in ItemLists : Len(s) = Len(items) /\ Range(s) = Range(items)}

\* sort.Sort(rssFeed): a permutation of the items in which no item is Less than
\* an earlier one; sort.Sort is not stable, so equal items may land either way
SortOutcomes(items) ==
    {s \in ItemLists : /\ Len(s) = Len(items)
                       /\ Range(s) = Range(items)
                       /\ \A i, j \in 1..Len(s) : i < j => ~Less(s[j], s[i])}

VARIABLES
    now,        \* the wall clock, in steps of 500 ms
    config,     \* RuntimeConfig: [MaxConcurrency, Feeds]
    locked,     \* config.Mutex is held
    ctxDone,    \* the shared context is cancelled
    sig,        \* the signal goroutine: "idle", "got" (signal received), "cancelled"
    main,       \* the main goroutine: [pc, todo, cur, final]
    sem,        \* tokens in the semaphore channel of the running runFeeds
    wg,         \* counter of the WaitGroup of the running runFeeds
    unit,       \* processFeed goroutine of each feed
    remote,     \* per feed, what its server can answer: [ids, stamps]
    sent,       \* per feed, the send attempts made so far, in order
    errs,       \* TRUE once a send attempt has returned an error
    msg,        \* a webhook.Message under construction (message specification)
    lastSend,   \* the last Message.Send: the message and what became of it
    posts,      \* HTTP posts made by Message.Send (message specification)
    hex2int     \* the last call of webhook.Hex2int: [hexStr, result, returned]

vars == <<now, config, locked, ctxDone, sig, main, sem, wg, unit, remote, sent, errs,
          msg, lastSend, posts, hex2int>>
mvars == <<msg, lastSend, posts, hex2int>>
svars == <<now, config, locked, ctxDone, sig, main, sem, wg, unit, remote, sent, errs>>


\* ---------------------------------------------------------------- webhook
NoError == "nil"
ErrOnlyOne == "only one of content, file or embeds is allowed"
ErrPost == "http post failed"

Contents == {"", "a", "b"}
EmbedPool == {"x", "y"}

\* line 23: whether url.Parse(hookURL) returns no error
URLParses(hookURL) == hookURL[1] # ":hook"

\* NewMessage: a message for the hook, nothing set; the caller of the model
\* takes the panic of line 25 when the hook does not parse
NewMessage(hookURL) ==
    [url |-> hookURL, Content |-> "", EmbedsNil |-> TRUE, Embeds |-> <<>>]

\* Message.AddEmbed: Embeds becomes a non-nil slice and e is appended
AddEmbed(w, e) == [w EXCEPT !.EmbedsNil = FALSE, !.Embeds = Append(@, e)]

\* Message.IsValid: counts the set fields and refuses only more than one
IsValid(w) ==
    LET f == (IF w.Content # "" THEN 1 ELSE 0) + (IF ~w.EmbedsNil THEN 1 ELSE 0)
    IN IF f > 1 THEN ErrOnlyOne ELSE NoError

\* Message.Send: the error of IsValid, else the outcome http of the POST
SendResult(w, http) == IF IsValid(w) # NoError THEN IsValid(w) ELSE http

\* whether Message.Send reaches http.Post
Posted(w) == IsValid(w) = NoError

\* ------------------------------------------------------------ utils.go
\* a string is the sequence of its characters
HexDigits == <<"0", "1", "2", "3", "4", "5", "6", "7", "8", "9",
               "a", "b", "c", "d", "e", "f">>
UpperDigits == <<"0", "1", "2", "3", "4", "5", "6", "7", "8", "9",
                 "A", "B", "C", "D", "E", "F">>

\* the value of a character as a digit of base 16, -1 when it is none
DigitValue(c) ==
    IF \E i \in 1..16 : HexDigits[i] = c
    THEN (CHOOSE i \in 1..16 : HexDigits[i] = c) - 1
    ELSE IF \E i \in 1..16 : UpperDigits[i] = c
         THEN (CHOOSE i \in 1..16 : UpperDigits[i] = c) - 1
         ELSE -1

\* strings.Replace(s, "0x", "", -1): every "0x", from the left, is taken out
RECURSIVE Replace0x(_)
Replace0x(s) ==
    IF Len(s) < 2 THEN s
    ELSE IF s[1] = "0" /\ s[2] = "x"
         THEN Replace0x(SubSeq(s, 3, Len(s)))
         ELSE <<s[1]>> \o Replace0x(Tail(s))

\* TrimPrefix that leaves the prefix in place
TrimPrefixKept(s, c) == s

\* strings.TrimPrefix(s, c) for a prefix c of one character
TrimPrefix(s, c) == IF s # <<>> /\ s[1] = c THEN Tail(s) ELSE s

\* the digits s read in base 16 onto the value acc
RECURSIVE Digits16(_, _)
Digits16(s, acc) ==
    IF s = <<>> THEN acc ELSE Digits16(Tail(s), 16 * acc + DigitValue(Head(s)))

\* strconv.ParseInt(s, 16, 64): an optional sign, then one hexadecimal digit
\* or more and nothing else; anything else is a syntax error.  The range
\* error of 64 bits needs sixteen digits, more than any string drawn here.
ParseInt16(s) ==
    LET signed == s # <<>> /\ s[1] \in {"+", "-"}
        digits == IF signed THEN Tail(s) ELSE s
    IN IF digits = <<>> \/ \E i \in 1..Len(digits) : DigitValue(digits[i]) < 0
       THEN [result |-> 0, err |-> "invalid syntax"]
       ELSE [result |-> IF signed /\ s[1] = "-"
                        THEN 0 - Digits16(digits, 0) ELSE Digits16(digits, 0),
             err |-> NoError]

\* webhook.Hex2int
Hex2int(hexStr) ==
    LET cleaned == TrimPrefix(Replace0x(hexStr), "#")
        parsed == ParseInt16(cleaned)
    IN IF parsed.err # NoError THEN 0 ELSE parsed.result

\* -------------------------------------------------------------- the feeds
\* fa is looked at once a second, fb at every run of runFeeds
Periode(f) == IF f = "fa" THEN TicksPerSec ELSE 0

FeedInit(nhooks, periode) ==
    [Hooks |-> [i \in 1..nhooks |-> HookURL(i)],
     Color |-> <<"#", "1", "a", "b", "c", "9", "c">>,
     LastPublished |-> 0, LastRun |-> 0, LastUpdated |-> 0,
     Periode |-> periode, URL |-> "url"]

\* lines 214-218: the thumbnail every embed is built with
Branding ==
    [URL |-> "https://static.mmo-champion.com/images/tranquilizing/logo.png",
     Width |-> 157, Height |-> 90]

\* an image block that prefers the structured image of the entry
EmbedImageEntryFirst(news) ==
    IF Image(news) # Nil THEN <<[URL |-> Image(news)[1].URL]>>
    ELSE IF Description(news).img # "" THEN <<[URL |-> Description(news).img]>>
         ELSE Nil

\* lines 189-196 and 225-229: e.Image is set from the first img of the
\* description when that has a src, and left nil otherwise
EmbedImage(news) ==
    IF Description(news).img # "" THEN <<[URL |-> Description(news).img]>> ELSE Nil

\* lines 214-218 and 231-235: e.Thumbnail is replaced by one with the URL of
\* the structured image of the entry when the entry has one
EmbedThumbnail(news) ==
    IF Image(news) # Nil
    THEN [URL |-> Image(news)[1].URL, Width |-> 0, Height |-> 0]
    ELSE Branding

\* lines 207-235: the embed processFeed builds for an item
Embed(feed, news) ==
    [Title |-> news, Color |-> Hex2int(feed.Color), Timestamp |-> PublishedParsed(news),
     Image |-> EmbedImage(news), Thumbnail |-> EmbedThumbnail(news)]

\* a unit is orphaned when the runFeeds that started it has returned: its
\* semaphore and its WaitGroup are then the unit's alone
IdleUnit(feed, nsent) ==
    [pc |-> "idle", Items |-> <<>>, UpdatedParsed |-> 0, hook |-> 0,
     orphan |-> FALSE,
     path |-> "none", doc |-> <<>>, start |-> feed, startSent |-> nsent]

Running == main.pc \notin {"exited", "panic"}

FeedSet == DOMAIN config.Feeds

\* a failed fetch that is recorded in LastRun
OnFetchErrorStamped(feed, t) == [feed EXCEPT !.LastRun = t]

\* lines 172-175: the error is logged and processFeed returns; the feed is
\* as it was, line 284 is not reached
OnFetchError(feed, t) == feed

\* lines 171-175: the fetch or the parse fails, or the context is cancelled or
\* timed out; processFeed returns, only the deferred function remains
FetchFailed(f) ==
    /\ Running
    /\ unit[f].pc = "fetch"
    /\ unit' = [unit EXCEPT ![f].pc = "release", ![f].path = "FetchFailed"]
    /\ config' = [config EXCEPT !.Feeds[f] = OnFetchError(@, now)]
    /\ UNCHANGED <<now, locked, ctxDone, sig, main, sem, wg, remote, sent, errs, mvars>>

\* the guard of the update written with != for <
HasUpdateNotEqual(feed, upd) == Unix(feed.LastUpdated) # Unix(upd)

\* the guard of the update written with <= for <
HasUpdateOrEqual(feed, upd) == Unix(feed.LastUpdated) <= Unix(upd)

\* line 178: the guard of the update
HasUpdate(feed, upd) == Unix(feed.LastUpdated) < Unix(upd)

\* lines 171-178 and 284: the fetch succeeds (the context is not cancelled) and
\* the document is sorted; when its timestamp is not newer than LastUpdated
\* nothing is left to do but line 284, feed.LastRun = time.Now()
Fetched(f) ==
    /\ Running
    /\ unit[f].pc = "fetch"
    /\ ~ctxDone
    /\ \E raw \in Documents(remote[f].ids), upd \in remote[f].stamps :
         \E items \in SortOutcomes(raw) :
           IF HasUpdate(config.Feeds[f], upd)
           THEN /\ unit' = [unit EXCEPT ![f].pc = "items", ![f].Items = items,
                                        ![f].UpdatedParsed = upd, ![f].doc = items,
                                        ![f].path = "HasUpdate"]
                /\ UNCHANGED config
           ELSE /\ unit' = [unit EXCEPT ![f].pc = "release",
                                        ![f].UpdatedParsed = upd, ![f].doc = items,
                                        ![f].path = "NoUpdate"]
                /\ config' = [config EXCEPT !.Feeds[f].LastRun = now]
    /\ UNCHANGED <<now, locked, ctxDone, sig, main, sem, wg, remote, sent, errs, mvars>>

\* the guard of an item written with <= for <
IsNewOrEqual(feed, news) == Unix(feed.LastPublished) <= Unix(PublishedParsed(news))

\* line 180: the guard of an item
IsNew(feed, news) == Unix(feed.LastPublished) < Unix(PublishedParsed(news))

\* lines 179-204: the next item of the range loop; a new item moves
\* LastPublished (line 181) before its description is parsed and before any
\* hook is tried; a description that does not parse ends the item (line 187)
NextItem(f) ==
    /\ Running
    /\ unit[f].pc = "items"
    /\ unit[f].Items # <<>>
    /\ LET news == Head(unit[f].Items)
       IN IF IsNew(config.Feeds[f], news)
          THEN /\ config' = [config EXCEPT !.Feeds[f].LastPublished = PublishedParsed(news)]
               /\ unit' = IF ~Description(news).parses \/ config.Feeds[f].Hooks = <<>>
                          THEN [unit EXCEPT ![f].Items = Tail(@)]
                          ELSE [unit EXCEPT ![f].pc = "hooks", ![f].hook = 1]
          ELSE /\ unit' = [unit EXCEPT ![f].Items = Tail(@)]
               /\ UNCHANGED config
    /\ UNCHANGED <<now, locked, ctxDone, sig, main, sem, wg, remote, sent, errs, mvars>>

\* a unit that returns when a send fails
AfterSendReturn(err) == IF err # NoError THEN "release" ELSE "sleep"

\* lines 237-240: an error of Send is logged and nothing else; the unit goes
\* on to time.Sleep
AfterSend(err) == "sleep"

\* lines 205-239: the message for the next hook is built and sent; when
\* the hook does not parse as a URL NewMessage panics (part_001 line 25), no
\* goroutine recovers and the process ends
SendHook(f) ==
    /\ Running
    /\ unit[f].pc = "hooks"
    /\ LET news == Head(unit[f].Items)
           hookURL == config.Feeds[f].Hooks[unit[f].hook]
           w == AddEmbed(NewMessage(hookURL), Embed(config.Feeds[f], news))
       IN IF ~URLParses(hookURL)
          THEN /\ main' = [main EXCEPT !.pc = "panic"]
               /\ UNCHANGED <<sent, errs, unit>>
          ELSE /\ \E http \in {NoError, ErrPost} :
                    /\ sent' = [sent EXCEPT ![f] = Append(@, [id |-> news, hook |-> unit[f].hook,
                                                              e |-> w.Embeds[1]])]
                    /\ errs' = (errs \/ SendResult(w, http) # NoError)
                    /\ unit' = [unit EXCEPT ![f].pc = AfterSend(SendResult(w, http))]
               /\ UNCHANGED main
    /\ UNCHANGED <<now, config, locked, ctxDone, sig, sem, wg, remote, mvars>>

\* line 240: time.Sleep(100ms), then the next hook, or the next item when the
\* hooks are exhausted
Sleep(f) ==
    /\ Running
    /\ unit[f].pc = "sleep"
    /\ unit' = IF unit[f].hook < Len(config.Feeds[f].Hooks)
               THEN [unit EXCEPT ![f].pc = "hooks", ![f].hook = @ + 1]
               ELSE [unit EXCEPT ![f].pc = "items", ![f].hook = 0, ![f].Items = Tail(@)]
    /\ UNCHANGED <<now, config, locked, ctxDone, sig, main, sem, wg, remote, sent, errs, mvars>>

\* lines 244 and 284: the range loop is over; LastUpdated takes the
\* document's timestamp and LastRun the time
Done(f) ==
    /\ Running
    /\ unit[f].pc = "items"
    /\ unit[f].Items = <<>>
    /\ config' = [config EXCEPT !.Feeds[f].LastUpdated = unit[f].UpdatedParsed,
                                !.Feeds[f].LastRun = now]
    /\ unit' = [unit EXCEPT ![f].pc = "release"]
    /\ UNCHANGED <<now, locked, ctxDone, sig, main, sem, wg, remote, sent, errs, mvars>>

\* line 160: the deferred function takes a token back from its semaphore
Release(f) ==
    /\ Running
    /\ unit[f].pc = "release"
    /\ IF unit[f].orphan THEN UNCHANGED sem ELSE sem > 0 /\ sem' = sem - 1
    /\ unit' = [unit EXCEPT ![f].pc = "wgdone"]
    /\ UNCHANGED <<now, config, locked, ctxDone, sig, main, wg, remote, sent, errs, mvars>>

\* line 161: wg.Done() on its WaitGroup, and the goroutine ends
WgDone(f) ==
    /\ Running
    /\ unit[f].pc = "wgdone"
    /\ wg' = IF unit[f].orphan THEN wg ELSE wg - 1
    /\ unit' = [unit EXCEPT ![f] = IdleUnit(config.Feeds[f], Len(sent[f]))]
    /\ UNCHANGED <<now, config, locked, ctxDone, sig, main, sem, remote, sent, errs, mvars>>

\* ------------------------------------------------------------- runFeeds
\* the due check left out
DueAlways(feed) == TRUE

\* line 145: the due check
Due(feed) == ~(now - feed.LastRun < feed.Periode)

\* line 151: go processFeed(ctx, name, feed, sem, &wg)
Started(f) == [IdleUnit(config.Feeds[f], Len(sent[f])) EXCEPT !.pc = "fetch"]

\* lines 124-125: the select takes the case of the timer, and main calls
\* runFeeds; a select that finds several cases ready takes any of them, so
\* the cancelled context does not rule the timer out
TimerFires ==
    /\ main.pc = "select"
    /\ main' = [main EXCEPT !.pc = "runFeeds"]
    /\ UNCHANGED <<now, config, locked, ctxDone, sig, sem, wg, unit, remote, sent, errs, mvars>>

\* lines 134-137: a fresh semaphore and WaitGroup, and config.Lock()
RunFeedsLock ==
    /\ main.pc = "runFeeds"
    /\ ~locked
    /\ locked' = TRUE
    /\ sem' = 0
    /\ wg' = 0
    /\ main' = [main EXCEPT !.pc = "range", !.todo = DOMAIN config.Feeds]
    /\ UNCHANGED <<now, config, ctxDone, sig, unit, remote, sent, errs, mvars>>

\* lines 139-143: the context is cancelled when a feed is about to be looked
\* at; runFeeds returns and its deferred Unlock runs, wg.Wait() does not; the
\* units it started keep its semaphore and its WaitGroup
RangeAborted ==
    /\ main.pc = "range"
    /\ main.todo # {}
    /\ ctxDone
    /\ locked' = FALSE
    /\ main' = [main EXCEPT !.pc = "select", !.todo = {}]
    /\ unit' = [f \in FeedSet |->
                  IF unit[f].pc = "idle" THEN unit[f] ELSE [unit[f] EXCEPT !.orphan = TRUE]]
    /\ sem' = 0
    /\ wg' = 0
    /\ UNCHANGED <<now, config, ctxDone, sig, remote, sent, errs, mvars>>

\* lines 145-148: the feed is not due
RangeSkip(f) ==
    /\ main.pc = "range"
    /\ f \in main.todo
    /\ ~ctxDone
    /\ ~Due(config.Feeds[f])
    /\ main' = [main EXCEPT !.todo = @ \ {f}]
    /\ UNCHANGED <<now, config, locked, ctxDone, sig, sem, wg, unit, remote, sent, errs, mvars>>

\* lines 139-148: the context is not cancelled and the feed is due
RangeDue(f) ==
    /\ main.pc = "range"
    /\ f \in main.todo
    /\ ~ctxDone
    /\ Due(config.Feeds[f])
    /\ main' = [main EXCEPT !.pc = "sem", !.cur = f, !.todo = @ \ {f}]
    /\ UNCHANGED <<now, config, locked, ctxDone, sig, sem, wg, unit, remote, sent, errs, mvars>>

\* a semaphore that takes one token more than its capacity
SemHasRoomOneMore(tokens, capacity) == tokens <= capacity

\* lines 134 and 149: a send on the buffered channel goes through while the
\* channel holds fewer tokens than its capacity, and blocks otherwise
SemHasRoom(tokens, capacity) == tokens < capacity

\* lines 149-151: a token goes into the semaphore once it has room, then
\* wg.Add(1) and the goroutine is started
Launch ==
    /\ main.pc = "sem"
    /\ SemHasRoom(sem, config.MaxConcurrency)
    /\ sem' = sem + 1
    /\ wg' = wg + 1
    /\ unit' = [unit EXCEPT ![main.cur] = Started(main.cur)]
    /\ main' = [main EXCEPT !.pc = "range", !.cur = "none"]
    /\ UNCHANGED <<now, config, locked, ctxDone, sig, remote, sent, errs, mvars>>

\* a Wait that returns whatever the counter
WaitReturnsAtOnce(counter) == TRUE

\* line 153: wg.Wait() returns once the counter of the WaitGroup is zero
WaitReturns(counter) == counter = 0

\* lines 153-154: wg.Wait() returns, runFeeds returns and unlocks
RangeDone ==
    /\ main.pc = "range"
    /\ main.todo = {}
    /\ WaitReturns(wg)
    /\ locked' = FALSE
    /\ main' = [main EXCEPT !.pc = "select"]
    /\ UNCHANGED <<now, config, ctxDone, sig, sem, wg, unit, remote, sent, errs, mvars>>

\* ----------------------------------------------------- main and saveConfig
\* lines 126-127: the save ticker has fired
SaveTick ==
    /\ main.pc = "select"
    /\ main' = [main EXCEPT !.pc = "saveConfig", !.final = FALSE]
    /\ UNCHANGED <<now, config, locked, ctxDone, sig, sem, wg, unit, remote, sent, errs, mvars>>

\* lines 122-123 and 103: main returns, the deferred saveConfig is called
CtxReturn ==
    /\ main.pc = "select"
    /\ ctxDone
    /\ main' = [main EXCEPT !.pc = "saveConfig", !.final = TRUE]
    /\ UNCHANGED <<now, config, locked, ctxDone, sig, sem, wg, unit, remote, sent, errs, mvars>>

\* line 72: config.Lock()
SaveLock ==
    /\ main.pc = "saveConfig"
    /\ ~locked
    /\ locked' = TRUE
    /\ main' = [main EXCEPT !.pc = "encode"]
    /\ UNCHANGED <<now, config, ctxDone, sig, sem, wg, unit, remote, sent, errs, mvars>>

\* lines 75-86: the configuration is read and written to the file, the
\* deferred Unlock runs; after the final save the process ends
SaveEncode ==
    /\ main.pc = "encode"
    /\ locked' = FALSE
    /\ main' = [main EXCEPT !.pc = IF main.final THEN "exited" ELSE "select"]
    /\ UNCHANGED <<now, config, ctxDone, sig, sem, wg, unit, remote, sent, errs, mvars>>

\* line 113: the signal goroutine receives SIGINT or SIGTERM
Signal ==
    /\ Running
    /\ sig = "idle"
    /\ sig' = "got"
    /\ UNCHANGED <<now, config, locked, ctxDone, main, sem, wg, unit, remote, sent, errs, mvars>>

\* line 115: cancel()
Cancel ==
    /\ Running
    /\ sig = "got"
    /\ sig' = "idle"
    /\ ctxDone' = TRUE
    /\ UNCHANGED <<now, config, locked, main, sem, wg, unit, remote, sent, errs, mvars>>

\* 500 ms pass
Tick ==
    /\ Running
    /\ now < MaxTime
    /\ now' = now + 1
    /\ UNCHANGED <<config, locked, ctxDone, sig, main, sem, wg, unit, remote, sent, errs, mvars>>

\* ------------------------------------------- a caller of package webhook
\* webhook.NewMessage(hookURL, wait)
MsgNew(i) ==
    /\ msg' = NewMessage(HookURL(i))
    /\ UNCHANGED <<lastSend, posts, hex2int, svars>>

\* the caller assigns the exported field Content
MsgSetContent(c) ==
    /\ msg' = [msg EXCEPT !.Content = c]
    /\ UNCHANGED <<lastSend, posts, hex2int, svars>>

\* Message.AddEmbed
MsgAddEmbed(e) ==
    /\ Len(msg.Embeds) < MaxEmbeds
    /\ msg' = AddEmbed(msg, e)
    /\ UNCHANGED <<lastSend, posts, hex2int, svars>>

\* Message.Send: http.Post is reached only when IsValid returns no error
MsgSend(http) ==
    /\ posts < MaxPosts
    /\ lastSend' = [w |-> msg, err |-> SendResult(msg, http)]
    /\ posts' = IF Posted(msg) THEN posts + 1 ELSE posts
    /\ UNCHANGED <<msg, hex2int, svars>>

\* ---------------------------------------------------- a caller of Hex2int
\* the characters the strings handed to Hex2int are drawn from
HexAlphabet == {"#", "0", "x", "1", "a", "F", "z", "-"}

HexInputs ==
    SeqsUpTo(HexAlphabet, MaxHexLen)
        \cup {<<"#", "1", "a", "b", "c", "9", "c">>,
              <<"1", "a", "b", "c", "9", "c">>,
              <<"0", "x", "1", "a", "b", "c", "9", "c">>,
              <<"z", "z", "z", "z", "z", "z">>}

\* webhook.Hex2int(hexStr) is called, once, and returns
Hex2intCall(hexStr) ==
    /\ ~hex2int.returned
    /\ hex2int' = [hexStr |-> hexStr, result |-> Hex2int(hexStr), returned |-> TRUE]
    /\ UNCHANGED <<msg, lastSend, posts, svars>>

\* ------------------------------------------------------- the specification
UnsentMessage == [w |-> NewMessage(HookURL(1)), err |-> "unsent"]

\* the state after init() has loaded the configuration cfg, with the feed
\* servers srv
Loaded(cfg, srv) ==
    /\ now = 0
    /\ config = cfg
    /\ remote = srv
    /\ locked = FALSE
    /\ ctxDone = FALSE
    /\ sig = "idle"
    /\ main = [pc |-> "select", todo |-> {}, cur |-> "none", final |-> FALSE]
    /\ sem = 0
    /\ wg = 0
    /\ unit = [f \in DOMAIN cfg.Feeds |-> IdleUnit(cfg.Feeds[f], 0)]
    /\ sent = [f \in DOMAIN cfg.Feeds |-> <<>>]
    /\ errs = FALSE
    /\ msg = NewMessage(HookURL(1))
    /\ lastSend = UnsentMessage
    /\ posts = 0
    /\ hex2int = [hexStr |-> <<>>, result |-> 0, returned |-> FALSE]

\* two feeds with one hook each, whose servers know one entry
Init ==
    \E n \in 0..MaxConc :
        Loaded([MaxConcurrency |-> n,
                Feeds |-> [f \in FeedNames |-> FeedInit(1, Periode(f))]],
               [f \in FeedNames |-> [ids |-> {"e3"}, stamps |-> {0, MaxSecs * TicksPerSec}]])

\* one feed with MaxHooks hooks, whose server knows every entry
SyncInit ==
    \E p \in {0, TicksPerSec} :
        Loaded([MaxConcurrency |-> 1,
                Feeds |-> [f \in {"fa"} |-> FeedInit(MaxHooks, p)]],
               [f \in {"fa"} |-> [ids |-> {"e1", "e2", "e3"}, stamps |-> Stamps]])

\* one feed with MaxHooks hooks, whose server knows every entry, the one
\* with a description that does not parse included
EntryInit ==
    \E p \in {0, TicksPerSec} :
        Loaded([MaxConcurrency |-> 1,
                Feeds |-> [f \in {"fa"} |-> FeedInit(MaxHooks, p)]],
               [f \in {"fa"} |->
                   [ids |-> EntryIds, stamps |-> {0, TicksPerSec, MaxSecs * TicksPerSec}]])

\* main with runFeeds and saveConfig
MainStep ==
    \/ TimerFires
    \/ RunFeedsLock
    \/ RangeAborted
    \/ \E f \in FeedSet : RangeSkip(f)
    \/ \E f \in FeedSet : RangeDue(f)
    \/ Launch
    \/ RangeDone
    \/ SaveTick
    \/ CtxReturn
    \/ SaveLock
    \/ SaveEncode

\* the goroutine of processFeed for feed f
UnitStep(f) ==
    \/ FetchFailed(f)
    \/ Fetched(f)
    \/ NextItem(f)
    \/ SendHook(f)
    \/ Sleep(f)
    \/ Done(f)
    \/ Release(f)
    \/ WgDone(f)

Next ==
    \/ TimerFires
    \/ RunFeedsLock
    \/ RangeAborted
    \/ \E f \in FeedSet : RangeSkip(f)
    \/ \E f \in FeedSet : RangeDue(f)
    \/ Launch
    \/ RangeDone
    \/ SaveTick
    \/ CtxReturn
    \/ SaveLock
    \/ SaveEncode
    \/ \E f \in FeedSet : FetchFailed(f)
    \/ \E f \in FeedSet : Fetched(f)
    \/ \E f \in FeedSet : NextItem(f)
    \/ \E f \in FeedSet : SendHook(f)
    \/ \E f \in FeedSet : Sleep(f)
    \/ \E f \in FeedSet : Done(f)
    \/ \E f \in FeedSet : Release(f)
    \/ \E f \in FeedSet : WgDone(f)
    \/ Signal
    \/ Cancel
    \/ Tick

Spec == Init /\ [][Next]_vars

\* a caller that builds messages and sends them; no feed is configured
MsgInit ==
    Loaded([MaxConcurrency |-> 0, Feeds |-> [f \in {} |-> FeedInit(0, 0)]],
           [f \in {} |-> [ids |-> {}, stamps |-> {}]])

MsgNext ==
    \/ \E i \in 1..MaxHooks : MsgNew(i)
    \/ \E c \in Contents : MsgSetContent(c)
    \/ \E e \in EmbedPool : MsgAddEmbed(e)
    \/ \E http \in {NoError, ErrPost} : MsgSend(http)

MsgSpec == MsgInit /\ [][MsgNext]_vars

\* a caller that hands strings to Hex2int
HexNext == \E hexStr \in HexInputs : Hex2intCall(hexStr)

HexSpec == MsgInit /\ [][HexNext]_vars

SyncSpec == SyncInit /\ [][Next]_vars

EntrySpec == EntryInit /\ [][Next]_vars

\* two feeds with one hook each: that of fb does not parse as a URL, and the
\* colour of fa is no hexadecimal number
BadHookInit ==
    Loaded([MaxConcurrency |-> MaxConc,
            Feeds |-> [f \in FeedNames |->
                         IF f = "fb"
                         THEN [FeedInit(1, Periode(f)) EXCEPT !.Hooks = <<BadHookURL(1)>>]
                         ELSE [FeedInit(1, Periode(f))
                                 EXCEPT !.Color = <<"z", "z", "z", "z", "z", "z">>]]],
           [f \in FeedNames |-> [ids |-> {"e3"}, stamps |-> {0, MaxSecs * TicksPerSec}]])

BadHookSpec == BadHookInit /\ [][Next]_vars

\* The scheduler under the fairness the Go runtime gives: every goroutine that
\* can take a step does so in the end (main, the units, the signal goroutine
\* once it holds a signal).  The save ticker is ready at most once in ten
\* seconds and the timer of a select only 500 ms after the select began, so a
\* select that finds the context cancelled cannot be diverted to saveConfig
\* or runFeeds for ever: the return of main is strongly fair.
FairSpec ==
    /\ Init
    /\ [][Next]_vars
    /\ WF_vars(MainStep)
    /\ SF_vars(CtxReturn)
    /\ WF_vars(Cancel)
    /\ \A f \in FeedNames : WF_vars(UnitStep(f))

TypeOK ==
    /\ now \in 0..MaxTime
    /\ locked \in BOOLEAN
    /\ ctxDone \in BOOLEAN
    /\ sem \in 0..MaxConc
    /\ wg \in 0..Cardinality(FeedNames)


\* ================================================================ claims
PubOf(f, i) == PublishedParsed(sent[f][i].id)

\* C1: for every feed, no step of the program lowers the stored LastPublished
\* or the stored LastUpdated.
C1_WatermarksNeverDecrease ==
    [][\A f \in FeedSet :
          /\ config'.Feeds[f].LastPublished >= config.Feeds[f].LastPublished
          /\ config'.Feeds[f].LastUpdated >= config.Feeds[f].LastUpdated]_vars

\* a synchronization that found both watermarks already set and moved both
C1_Witness ==
    \E f \in FeedSet :
        /\ unit[f].pc = "release"
        /\ unit[f].start.LastPublished > 0
        /\ unit[f].start.LastUpdated > 0
        /\ config.Feeds[f].LastPublished > unit[f].start.LastPublished
        /\ config.Feeds[f].LastUpdated > unit[f].start.LastUpdated

\* C2: LastPublished has reached an entry's publish timestamp by the time the
\* entry is first sent, and over all synchronizations of a feed no (entry,
\* destination) pair gets a second send attempt, whatever the sends returned.
C2_AtMostOnce ==
    \A f \in FeedSet :
        /\ \A i \in 1..Len(sent[f]) : config.Feeds[f].LastPublished >= PubOf(f, i)
        /\ \A i, j \in 1..Len(sent[f]) :
              i < j => <<sent[f][i].id, sent[f][i].hook>> # <<sent[f][j].id, sent[f][j].hook>>

\* a later synchronization met again, in a document with an update, the one
\* entry sent so far, a send of which had failed, and sent nothing
C2_Witness ==
    \E f \in FeedSet :
        /\ unit[f].pc = "release"
        /\ unit[f].path = "HasUpdate"
        /\ errs
        /\ unit[f].startSent = Len(sent[f])
        /\ Len(sent[f]) > 0
        /\ \A i \in 1..Len(sent[f]) : sent[f][i].id = sent[f][1].id
        /\ sent[f][1].id \in Range(unit[f].doc)

\* the entries of the fetched document published after the LastPublished
\* stored when the synchronization began
NewEntries(f) ==
    {i \in 1..Len(unit[f].doc) :
        PublishedParsed(unit[f].doc[i]) > unit[f].start.LastPublished}

\* C3: a synchronization whose document carries an update makes exactly N*D
\* send attempts, N the entries published after the stored LastPublished and
\* D the destinations of the feed.
C3_ExactlyNTimesD ==
    \A f \in FeedSet :
        (unit[f].pc = "release" /\ unit[f].path = "HasUpdate")
            => Len(sent[f]) - unit[f].startSent
                 = Cardinality(NewEntries(f)) * Len(config.Feeds[f].Hooks)

\* the units whose goroutine has started and not ended
Unfinished == {f \in FeedSet : unit[f].pc # "idle"}

\* the units that have started and not yet given their token back
HoldingSlot == {f \in FeedSet : unit[f].pc \notin {"idle", "wgdone"}}

\* C4 as claimed: the goroutines of processFeed that have started and not
\* ended never outnumber maxConcurrency.
C4_UnfinishedWithinLimit == Cardinality(Unfinished) <= config.MaxConcurrency

\* C4 as amended: the units that have started and not yet given their token
\* back never outnumber maxConcurrency, and those of the running runFeeds
\* never outnumber the tokens in its semaphore.
C4_HoldersWithinLimit ==
    /\ Cardinality(HoldingSlot) <= config.MaxConcurrency
    /\ Cardinality({f \in HoldingSlot : ~unit[f].orphan}) <= sem
    /\ sem <= config.MaxConcurrency

\* runFeeds waits for a token while as many units as maxConcurrency hold one
C4_Witness ==
    /\ main.pc = "sem"
    /\ config.MaxConcurrency > 0
    /\ Cardinality(HoldingSlot) = config.MaxConcurrency

\* a unit that will still write a watermark of its feed
CanStillWrite(f) ==
    \/ unit[f].pc \in {"items", "hooks", "sleep"}
    \/ unit[f].pc = "fetch" /\ ~ctxDone

\* C5: saveConfig never reads the configuration while a unit that can still
\* write a watermark is in flight.
C5_SaveExcludesUnits ==
    main.pc = "encode" => \A f \in FeedSet : ~CanStillWrite(f)

\* C6: once the shared context is cancelled no unit is started.
C6_NoStartAfterCancel ==
    [][ctxDone => \A f \in FeedSet : unit[f].pc = "idle" => unit'[f].pc = "idle"]_vars

\* C7: once a shutdown signal has been received the context is cancelled, the
\* final saveConfig runs and the process exits.
C7_ShutdownCompletes == (sig = "got") ~> (ctxDone /\ main.pc = "exited")

\* C8: a unit is started only for a feed whose LastRun is at least Periode
\* old, and a feed that is not due leaves the range loop with its unit, its
\* sends and its fields untouched.
C8_OnlyDueFeedsStart ==
    [][\A f \in FeedSet :
          /\ (unit[f].pc = "idle" /\ unit'[f].pc # "idle")
                => now - config.Feeds[f].LastRun >= config.Feeds[f].Periode
          /\ (/\ main.pc = "range"
              /\ f \in main.todo
              /\ f \notin main'.todo
              /\ now - config.Feeds[f].LastRun < config.Feeds[f].Periode)
                => /\ main'.pc \in {"range", "select"}
                   /\ unit'[f] = unit[f]
                   /\ sent'[f] = sent[f]
                   /\ config'.Feeds[f] = config.Feeds[f]]_vars

\* in one run of runFeeds, fa, not yet Periode old, has been passed over
\* and the unit of fb is running
C8_Witness ==
    /\ main.pc = "range"
    /\ main.todo = {}
    /\ ~ctxDone
    /\ now < config.Feeds["fa"].Periode
    /\ unit["fa"].pc = "idle"
    /\ unit["fb"].pc # "idle"

\* C9: a fetched document whose timestamp is not later than the stored
\* LastUpdated brings no send attempt and changes no field but LastRun.
C9_NoUpdateChangesOnlyLastRun ==
    \A f \in FeedSet :
        (/\ unit[f].pc \in {"release", "wgdone"}
         /\ unit[f].path # "FetchFailed"
         /\ unit[f].UpdatedParsed <= unit[f].start.LastUpdated)
            => /\ Len(sent[f]) = unit[f].startSent
               /\ [config.Feeds[f] EXCEPT !.LastRun = unit[f].start.LastRun] = unit[f].start

\* such a document, carrying an entry published after LastPublished, has
\* been handled and LastRun has moved
C9_Witness ==
    \E f \in FeedSet :
        /\ unit[f].pc = "release"
        /\ unit[f].path = "NoUpdate"
        /\ unit[f].UpdatedParsed <= unit[f].start.LastUpdated
        /\ NewEntries(f) # {}
        /\ config.Feeds[f].LastRun # unit[f].start.LastRun

\* exactly one of Content and Embeds is set
ExactlyOneSet(w) == (w.Content # "") # (~w.EmbedsNil)

\* C10: Send posts a message only when exactly one of Content and Embeds is
\* set, and IsValid accepts a message exactly then.
C10_SendsOnlyExactlyOne ==
    /\ lastSend.err \in {NoError, ErrPost} => ExactlyOneSet(lastSend.w)
    /\ lastSend.err = ErrOnlyOne => ~ExactlyOneSet(lastSend.w)

\* the send attempts of the running synchronization of f, as (entry, hook)
UnitSends(f) ==
    [i \in 1..(Len(sent[f]) - unit[f].startSent) |->
        <<sent[f][unit[f].startSent + i].id, sent[f][unit[f].startSent + i].hook>>]

\* the entries of doc published in a later second than everything before
\* them, lp included: the entries that are new when their turn comes
RECURSIVE NewInTurn(_, _)
NewInTurn(doc, lp) ==
    IF doc = <<>> THEN <<>>
    ELSE IF Unix(lp) < Unix(PublishedParsed(Head(doc)))
         THEN <<Head(doc)>> \o NewInTurn(Tail(doc), PublishedParsed(Head(doc)))
         ELSE NewInTurn(Tail(doc), lp)

\* every destination 1..d for each entry of ids whose description parses
RECURSIVE EachToAll(_, _)
EachToAll(ids, d) ==
    IF ids = <<>> THEN <<>>
    ELSE (IF Description(Head(ids)).parses THEN [k \in 1..d |-> <<Head(ids), k>>] ELSE <<>>)
         \o EachToAll(Tail(ids), d)

\* what a synchronization of f with no failure at all would attempt
Dispatch(f) ==
    EachToAll(NewInTurn(unit[f].doc, unit[f].start.LastPublished),
              Len(config.Feeds[f].Hooks))

IsPrefix(s, t) == Len(s) <= Len(t) /\ \A i \in 1..Len(s) : s[i] = t[i]

\* C11: whatever descriptions failed to parse and whatever sends returned an
\* error, a synchronization whose document carries an update makes its send
\* attempts along the full list (every entry that is new in its turn and
\* parses, to every destination in order) and ends with all of them made,
\* LastUpdated at the document's timestamp and LastRun moved.
C11_FailuresAreIsolated ==
    \A f \in FeedSet :
        unit[f].path = "HasUpdate"
            => /\ IsPrefix(UnitSends(f), Dispatch(f))
               /\ unit[f].pc \in {"release", "wgdone"}
                     => /\ UnitSends(f) = Dispatch(f)
                        /\ config.Feeds[f].LastUpdated = unit[f].UpdatedParsed
                        /\ config.Feeds[f].LastRun
                              >= unit[f].start.LastRun + config.Feeds[f].Periode

\* a synchronization has ended whose first entry had a description that did
\* not parse and in which a send returned an error; the later entry went to
\* every destination
C11_Witness ==
    \E f \in FeedSet :
        /\ unit[f].pc = "release"
        /\ unit[f].path = "HasUpdate"
        /\ unit[f].startSent = 0
        /\ errs
        /\ Len(unit[f].doc) = 2
        /\ ~Description(unit[f].doc[1]).parses
        /\ Len(config.Feeds[f].Hooks) >= 2
        /\ UnitSends(f) = [k \in 1..Len(config.Feeds[f].Hooks) |-> <<unit[f].doc[2], k>>]

\* the three spellings of the colour 0x1ABC9C
Colour1abc9c ==
    {<<"#", "1", "a", "b", "c", "9", "c">>,
     <<"1", "a", "b", "c", "9", "c">>,
     <<"0", "x", "1", "a", "b", "c", "9", "c">>}

\* C12 as claimed: Hex2int returns 1,816,476 for each of the three spellings
\* and 0 for "zzzzzz".
C12_HexIs1816476 ==
    hex2int.returned
        => /\ hex2int.hexStr \in Colour1abc9c => hex2int.result = 1816476
           /\ hex2int.hexStr = <<"z", "z", "z", "z", "z", "z">> => hex2int.result = 0

\* C12 as amended: Hex2int returns 1,752,220, the value of 0x1ABC9C, for each
\* of the three spellings and 0 for "zzzzzz".
C12_HexIs1752220 ==
    hex2int.returned
        => /\ hex2int.hexStr \in Colour1abc9c
                => hex2int.result
                     = 1 * 1048576 + 10 * 65536 + 11 * 4096 + 12 * 256 + 9 * 16 + 12
           /\ hex2int.hexStr \in Colour1abc9c => hex2int.result = 1752220
           /\ hex2int.hexStr = <<"z", "z", "z", "z", "z", "z">> => hex2int.result = 0

\* Hex2int has returned for the spelling with the leading "#"
C12_Witness ==
    /\ hex2int.returned
    /\ hex2int.hexStr = <<"#", "1", "a", "b", "c", "9", "c">>
    /\ hex2int.result > 0

\* C13: a synchronization whose fetch fails is recorded in LastRun like any
\* other, so when the failed attempt ends less than Periode has passed since
\* LastRun and the feed is not due at the next run of runFeeds.
C13_FailedAttemptIsRecorded ==
    [][\A f \in FeedSet :
          (/\ unit[f].pc = "fetch"
           /\ unit'[f].path = "FetchFailed"
           /\ config.Feeds[f].Periode > 0)
              => now' - config'.Feeds[f].LastRun < config'.Feeds[f].Periode]_vars

\* C14: a synchronization whose fetch failed has made no send attempt and
\* has left every field of its feed as it found it; its deferred function
\* finds a token to take back, takes exactly one from the semaphore of its
\* runFeeds and lowers the WaitGroup of its runFeeds by exactly one.
C14_FetchFailedTouchesNothing ==
    /\ [](\A f \in FeedSet :
            unit[f].path = "FetchFailed"
                => /\ unit[f].pc \in {"release", "wgdone"}
                   /\ Len(sent[f]) = unit[f].startSent
                   /\ config.Feeds[f] = unit[f].start
                   /\ (unit[f].pc = "release" /\ ~unit[f].orphan) => sem > 0
                   /\ (unit[f].pc = "wgdone" /\ ~unit[f].orphan) => wg > 0)
    /\ [][\A f \in FeedSet :
            (unit[f].path = "FetchFailed" /\ ~unit[f].orphan /\ unit'[f] # unit[f])
                => \/ unit[f].pc = "release" /\ unit'[f].pc = "wgdone"
                      /\ sem' = sem - 1 /\ wg' = wg
                   \/ unit[f].pc = "wgdone" /\ unit'[f].pc = "idle"
                      /\ wg' = wg - 1 /\ sem' = sem
                   \/ unit'[f].orphan /\ unit'[f].pc = unit[f].pc]_vars

\* a unit whose fetch failed, with runFeeds still waiting for it, is about to
\* signal its completion: its token is back in the semaphore
C14_Witness ==
    \E f \in FeedSet :
        /\ unit[f].path = "FetchFailed"
        /\ unit[f].pc = "wgdone"
        /\ ~unit[f].orphan
        /\ ~ctxDone
        /\ main.pc = "range"
        /\ main.todo = {}
        /\ wg = 1
        /\ sem = 0

\* C15: runFeeds holds the lock from its first due check to its return; it
\* evaluates the due check of a feed, and starts the unit of a feed, only
\* while no unit of that feed is in flight, so no feed ever has two.
C15_OneUnitPerFeed ==
    /\ main.pc \in {"range", "sem"} => locked
    /\ (main.pc = "range" /\ ~ctxDone) => \A f \in main.todo : unit[f].pc = "idle"
    /\ main.pc = "sem" => unit[main.cur].pc = "idle"

\* a later run of runFeeds is about to evaluate the due check of fb, which an
\* earlier run has synchronized, while the unit of fa is in flight
C15_Witness ==
    /\ main.pc = "range"
    /\ main.todo = {"fb"}
    /\ ~ctxDone
    /\ config.Feeds["fb"].LastRun > 0
    /\ unit["fb"].pc = "idle"
    /\ unit["fa"].pc # "idle"

\* the place of entry id in the document doc
PlaceIn(doc, id) == CHOOSE i \in 1..Len(doc) : doc[i] = id

\* C16: the entries of a synchronization are taken in the order of the
\* sorted document, which is by publish timestamp, earliest first; its send
\* attempts follow that order and, within an entry, the order of the hooks;
\* a step makes at most one send attempt, after which the unit is in the
\* delay of line 240, and a unit in that delay makes no send attempt until
\* the delay is over.
C16_SendsInOrderWithDelay ==
    /\ [](\A f \in FeedSet :
            /\ \A i, j \in 1..Len(unit[f].doc) :
                  i < j => PublishedParsed(unit[f].doc[i]) <= PublishedParsed(unit[f].doc[j])
            /\ \A i, j \in 1..Len(UnitSends(f)) :
                  i < j =>
                    LET a == UnitSends(f)[i]
                        b == UnitSends(f)[j]
                    IN /\ a[1] \in Range(unit[f].doc)
                       /\ b[1] \in Range(unit[f].doc)
                       /\ \/ PlaceIn(unit[f].doc, a[1]) < PlaceIn(unit[f].doc, b[1])
                          \/ a[1] = b[1] /\ a[2] < b[2])
    /\ [][\A f \in FeedSet :
            /\ sent'[f] # sent[f]
                  => /\ Len(sent'[f]) = Len(sent[f]) + 1
                     /\ unit[f].pc = "hooks"
                     /\ unit'[f].pc = "sleep"
                     /\ sent'[f][Len(sent'[f])].hook = unit[f].hook
                     /\ sent'[f][Len(sent'[f])].id = Head(unit[f].Items)
            /\ (unit[f].pc = "sleep" /\ unit'[f].pc # "sleep")
                  => /\ sent'[f] = sent[f]
                     /\ \/ unit'[f].pc = "hooks" /\ unit'[f].hook = unit[f].hook + 1
                        \/ unit'[f].pc = "items" /\ unit'[f].Items = Tail(unit[f].Items)]_vars

\* two entries have gone to two hooks each, entry by entry, and the unit is
\* in the delay after the last of the four send attempts
C16_Witness ==
    \E f \in FeedSet :
        /\ unit[f].pc = "sleep"
        /\ Len(unit[f].doc) = 2
        /\ UnitSends(f) = <<(<<unit[f].doc[1], 1>>), (<<unit[f].doc[1], 2>>),
                            (<<unit[f].doc[2], 1>>), (<<unit[f].doc[2], 2>>)>>

\* a unit that has fetched a document with an update and has entries left to
\* look at or to send: it fetched before the cancellation, since no fetch
\* succeeds after it, and has not reached Done
MidDispatch(f) == unit[f].pc \in {"items", "hooks", "sleep"}

\* C17: the final saveConfig is called, and the process exits, only when
\* every unit that was running at the cancellation has reached its terminal
\* state; none is left in the middle of its entries and sends.
C17_ShutdownWaitsForUnits ==
    (main.final /\ main.pc \in {"saveConfig", "encode", "exited"})
        => \A f \in FeedSet : ~MidDispatch(f)

\* C18: no error met while a feed is synchronized ends the process.
C18_NoFeedErrorEndsTheProcess == main.pc # "panic"

\* the first image of the description of entry id, as an image block
Extracted(id) ==
    IF Description(id).img # "" THEN <<[URL |-> Description(id).img]>> ELSE Nil

\* C19 as claimed: the image block of every payload sent is the structured
\* image of the entry when it has one, else the first image of its
\* description when it has one, else absent, and the thumbnail is always the
\* branding default.
C19_EntryImageComesFirst ==
    \A f \in FeedSet : \A i \in 1..Len(sent[f]) :
        LET id == sent[f][i].id
            e == sent[f][i].e
        IN /\ e.Image = IF Image(id) # Nil THEN <<[URL |-> Image(id)[1].URL]>>
                         ELSE Extracted(id)
           /\ e.Thumbnail = Branding

\* C19 as amended: the image block of every payload sent is the first image
\* of the description when it has one and absent otherwise, whatever the
\* structured image; the thumbnail carries the URL of the structured image
\* of the entry when it has one, and is the branding default otherwise.
C19_DescriptionImageOnly ==
    \A f \in FeedSet : \A i \in 1..Len(sent[f]) :
        LET id == sent[f][i].id
            e == sent[f][i].e
        IN /\ e.Image = Extracted(id)
           /\ Image(id) = Nil => e.Thumbnail = Branding
           /\ Image(id) # Nil
                 => e.Thumbnail.URL = Image(id)[1].URL /\ e.Thumbnail # Branding

\* an entry with a structured image and an image in its description has
\* been sent, after an entry with neither
C19_Witness ==
    \E f \in FeedSet : \E i, j \in 1..Len(sent[f]) :
        /\ i < j
        /\ Image(sent[f][i].id) = Nil
        /\ Extracted(sent[f][i].id) = Nil
        /\ Image(sent[f][j].id) # Nil
        /\ Extracted(sent[f][j].id) # Nil
        /\ sent[f][j].e.Image = Extracted(sent[f][j].id)

\* C20: every run of runFeeds that has taken the lock returns and releases
\* it, whatever maxConcurrency and whatever feeds are due.
C20_TickCompletes ==
    (locked /\ main.pc \in {"range", "sem"}) ~> (~locked /\ main.pc = "select")

====
